---- MODULE Spec2Model ----
(***************************************************************************)
(* Model of library/heston.py: the Heston path simulator                   *)
(* (simulate_heston), the semi-closed-form pricer (ComputeHeston), the     *)
(* finite-difference Greeks and the row-wise table wrappers.               *)
(*                                                                         *)
(* Floating-point numbers are modelled as fixed-point integers with SCALE  *)
(* units per 1.0, plus the IEEE special values NaN and +/-Inf, which every *)
(* arithmetic operator propagates the way numpy does.                      *)
(***************************************************************************)
EXTENDS Integers, Sequences, FiniteSets, TLC

(* ------------------------------------------------------------------ *)
(* Bounds of the model                                                 *)
(* ------------------------------------------------------------------ *)
\* last calendar day the date inputs range over (day d has weekday d % 7)
MaxDay == 6
\* largest seed handed to the process-wide random source
MaxSeed == 1

(* ------------------------------------------------------------------ *)
(* Fixed-point floats                                                  *)
(* ------------------------------------------------------------------ *)
SCALE == 10000
NaN == -2000000000
Inf == 2000000000
NegInf == -2000000001

\* the element of a one-element set: binds a value that is computed once
Only(S) == CHOOSE x \in S : TRUE

IsSpecial(x) == x = NaN \/ x = Inf \/ x = NegInf

Fx(whole, frac) == whole * SCALE + frac

\* Each operator evaluates its operands once and then applies a function to
\* the values.

neg[a \in Int] ==
    IF a = NaN THEN NaN
    ELSE IF a = Inf THEN NegInf
    ELSE IF a = NegInf THEN Inf
    ELSE -a

Neg(a) == neg[a]

add[p \in Int \X Int] ==
    LET a == p[1]
        b == p[2]
    IN  IF a = NaN \/ b = NaN THEN NaN
        ELSE IF (a = Inf /\ b = NegInf) \/ (a = NegInf /\ b = Inf) THEN NaN
        ELSE IF a = Inf \/ b = Inf THEN Inf
        ELSE IF a = NegInf \/ b = NegInf THEN NegInf
        ELSE a + b

Add(a, b) == add[<<a, b>>]

Sub(a, b) == add[<<a, neg[b]>>]

Sign(a) == IF a = Inf THEN 1 ELSE IF a = NegInf THEN -1
           ELSE IF a > 0 THEN 1 ELSE IF a < 0 THEN -1 ELSE 0

mul[p \in Int \X Int] ==
    LET a == p[1]
        b == p[2]
    IN  IF a = NaN \/ b = NaN THEN NaN
        ELSE IF IsSpecial(a) \/ IsSpecial(b)
             THEN (IF Sign(a) * Sign(b) = 0 THEN NaN
                   ELSE IF Sign(a) * Sign(b) > 0 THEN Inf ELSE NegInf)
        ELSE (a * b) \div SCALE

Mul(a, b) == mul[<<a, b>>]

\* numpy float64 division: x/0 is nan (x = 0) or +/-inf, with a warning only
div[p \in Int \X Int] ==
    LET a == p[1]
        b == p[2]
    IN  IF a = NaN \/ b = NaN THEN NaN
        ELSE IF IsSpecial(a) /\ IsSpecial(b) THEN NaN
        ELSE IF IsSpecial(b) THEN 0
        ELSE IF b = 0
             THEN (IF Sign(a) = 0 THEN NaN ELSE IF Sign(a) > 0 THEN Inf ELSE NegInf)
        ELSE IF IsSpecial(a)
             THEN (IF Sign(a) * Sign(b) > 0 THEN Inf ELSE NegInf)
        ELSE (a * SCALE) \div b

Div(a, b) == div[<<a, b>>]

RECURSIVE isqrt_between(_, _, _)
\* largest k in lo..hi with k * k <= n (bisection)
isqrt_between(n, lo, hi) ==
    IF lo >= hi THEN lo
    ELSE LET mid == (lo + hi + 1) \div 2
         IN  IF mid * mid <= n THEN isqrt_between(n, mid, hi)
             ELSE isqrt_between(n, lo, mid - 1)

\* np.sqrt on a float64: nan for a negative argument (RuntimeWarning, no raise)
sqrt[a \in Int] ==
    IF a = NaN \/ a = NegInf THEN NaN
    ELSE IF a = Inf THEN Inf
    ELSE IF a < 0 THEN NaN
    ELSE isqrt_between(a * SCALE, 0, 46340)

Sqrt(a) == sqrt[a]

\* np.maximum(a, b): nan if either is nan
maximum[p \in Int \X Int] ==
    LET a == p[1]
        b == p[2]
    IN  IF a = NaN \/ b = NaN THEN NaN
        ELSE IF a = Inf \/ b = Inf THEN Inf
        ELSE IF a = NegInf THEN b
        ELSE IF b = NegInf THEN a
        ELSE IF a >= b THEN a ELSE b

Maximum(a, b) == maximum[<<a, b>>]

(* ------------------------------------------------------------------ *)
(* State                                                               *)
(* ------------------------------------------------------------------ *)
VARIABLES
    \* --- simulate_heston ---
    spc,        \* position: "idle", "loop", "returned", "raised"
    params,     \* the params dict of the call in progress / last call
    time_grid,  \* business days of the call
    path,       \* <<S row, V row>>, the (2, m) array
    w0, w1,     \* shock arrays
    t,          \* loop index
    rng,        \* state of the process-wide random source
    rng0,       \* its state when the call was entered
    ndraws,     \* standard-normal draws consumed by the call
    err,        \* exception raised by the call ("" if none)
    result,     \* <<DataFrame>> returned, or <<>>
    ref,        \* {} or a remembered completed run
    \* --- ComputeHeston, the Greeks and the table wrappers ---
    pricer,     \* <<>> or <<the ComputeHeston object>>
    ppc,        \* position: "idle", "rows", "returned", "raised"
    op,         \* entry point in progress / last called
    args,       \* arguments of that call
    df,         \* the table a wrapper works on, a sequence of rows
    ix,         \* position of the row the wrapper handles next
    price,      \* the wrapper's local `price`: <<>> while unbound
    calls,      \* call_price invocations of the call, in order
    quads,      \* intervals handed to quad by the call, in order
    divisors,   \* divisors of the finite differences of the call, in order
    perr,       \* exception raised by the call ("" if none)
    ret         \* <<value>> returned by a direct call, or <<>>

simvars == <<spc, params, time_grid, path, w0, w1, t, rng, rng0, ndraws, err,
             result, ref>>

pricevars == <<pricer, ppc, op, args, df, ix, price, calls, quads, divisors,
               perr, ret>>

vars == <<simvars, pricevars>>

(* ------------------------------------------------------------------ *)
(* The process-wide random source (numpy's global generator)           *)
(* ------------------------------------------------------------------ *)
rng_next(st) == (5 * st + 3) % 8

rng_normal(st) == ((st % 5) - 2) * SCALE

RECURSIVE stream(_, _)
\* n successive draws from state st: <<draws, state after>>
stream(st, n) ==
    IF n <= 0 THEN <<(<<>>), st>>
    ELSE LET rest == stream(rng_next(st), n - 1)
         IN  <<(<<rng_normal(st)>>) \o rest[1], rest[2]>>

\* a generator whose draws also depend on what the previous call left behind
standard_normal_leftover(st, n) == stream((st + t) % 8, n)

\* np.random.standard_normal(n) from state st: <<draws, state after>>
standard_normal(st, n) == stream(st, n)

(* ------------------------------------------------------------------ *)
(* simulate_heston                                                     *)
(* ------------------------------------------------------------------ *)
day_count == 253

dt == SCALE \div day_count

IsBusinessDay(d) == (d % 7) < 5

RECURSIVE date_range(_, _)
\* pd.date_range(start, end, freq='B'): the business days of [start, end]
date_range(start, end) ==
    IF start > end THEN <<>>
    ELSE (IF IsBusinessDay(start) THEN <<start>> ELSE <<>>)
         \o date_range(start + 1, end)

zeros(m) == [i \in 1..m |-> 0]

\* number of shocks drawn for one factor
n_shocks(m) == m - 1

\* w1 = rho * w0 + np.sqrt(1 - rho ** 2) * w1
correlate(rho, a0, aux) ==
    [i \in 1..Len(a0) |->
        Add(Mul(rho, a0[i]), Mul(Sqrt(Sub(SCALE, Mul(rho, rho))), aux[i]))]

\* argument of the square root in both updates: path[1, t-1] * dt
sqrt_arg(v_prev) == Mul(v_prev, dt)

\* Euler step for S
euler_S(p, s_prev, v_prev, z0) ==
    Mul(s_prev,
        Add(Add(SCALE, Mul(p.mu, dt)), Mul(Sqrt(sqrt_arg(v_prev)), z0)))

\* Milstein step for the variance
milstein_V(p, v_prev, z1) ==
    Add(Add(Add(v_prev,
                Mul(Mul(p.kappa, Sub(p.theta, v_prev)), dt)),
            Mul(Mul(p.sigma, Sqrt(sqrt_arg(v_prev))), z1)),
        Mul(Mul(Mul(SCALE \div 4, Mul(p.sigma, p.sigma)), dt),
            Sub(Mul(z1, z1), SCALE)))

\* a variance update that reads the column being written in the same iteration
v_read_index_same_iteration(tt) == tt

\* index (0-based column) of the variance the Milstein step reads
v_read_index(tt) == tt - 1

\* body of the loop for index tt (0-based columns; sequences are 1-based)
loop_body(p, pth, a0, a1, tt) ==
    LET p1 == <<[pth[1] EXCEPT ![tt + 1] =
                    euler_S(p, pth[1][tt], pth[2][tt], a0[tt])], pth[2]>>
    IN  <<p1[1], [p1[2] EXCEPT ![tt + 1] =
                    milstein_V(p, p1[2][v_read_index(tt) + 1], a1[tt])]>>

\* pd.DataFrame(np.transpose(path), index=time_grid, columns=['S0','Var0'])
DataFrame(pth, grid) ==
    [i \in 1..Len(grid) |-> [date |-> grid[i], S0 |-> pth[1][i], Var0 |-> pth[2][i]]]

Days == 0..MaxDay
Seeds == 0..MaxSeed

ParamSets ==
    [mu : {0}, kappa : {Fx(2, 0)}, theta : {400},
     sigma : {3000, Fx(2, 0)}, rho : {-5000, 0},
     s0 : {Fx(10, 0)}, v0 : {10},
     start_date : {0, 3}, end_date : Days]

SimIdle == spc \in {"idle", "returned", "raised"}

\* np.random.seed(s), done by the caller
seed(s) ==
    /\ SimIdle
    /\ rng' = s
    /\ UNCHANGED <<spc, params, time_grid, path, w0, w1, t, rng0, ndraws, err,
                   result, ref>>
    /\ UNCHANGED pricevars

\* entry of simulate_heston up to the loop (lines 11-34)
simulate_heston(p) ==
    /\ SimIdle
    /\ \E grid \in {date_range(p.start_date, p.end_date)} :
       \E m \in {Len(grid)} :
       \E d0 \in {standard_normal(rng, n_shocks(m))} :
       \E d1 \in {standard_normal(d0[2], n_shocks(m))} :
           /\ params' = p
           /\ time_grid' = grid
           /\ rng0' = rng
           /\ result' = <<>>
           /\ IF m = 0
              THEN \* path[0, 0] = s0 on a (2, 0) array
                   /\ spc' = "raised"
                   /\ err' = "IndexError"
                   /\ path' = <<zeros(0), zeros(0)>>
                   /\ w0' = <<>> /\ w1' = <<>> /\ t' = 0
                   /\ ndraws' = 0
                   /\ rng' = rng
              ELSE /\ spc' = "loop"
                   /\ err' = ""
                   /\ path' = <<[zeros(m) EXCEPT ![1] = p.s0],
                                [zeros(m) EXCEPT ![1] = p.v0]>>
                   /\ w0' = d0[1]
                   /\ w1' = correlate(p.rho, d0[1], d1[1])
                   /\ ndraws' = Len(d0[1]) + Len(d1[1])
                   /\ rng' = d1[2]
                   /\ t' = 1
    \* the caller compares runs of the same parameters only
    /\ ref' = {r \in ref : r.params = p}
    /\ UNCHANGED pricevars

\* one iteration of  for t in range(1, m)
loop_step ==
    /\ spc = "loop"
    /\ t < Len(time_grid)
    /\ path' = loop_body(params, path, w0, w1, t)
    /\ t' = t + 1
    /\ UNCHANGED <<spc, params, time_grid, w0, w1, rng, rng0, ndraws, err,
                   result, ref>>
    /\ UNCHANGED pricevars

\* loop exhausted: return the DataFrame
simulate_return ==
    /\ spc = "loop"
    /\ t >= Len(time_grid)
    /\ result' = <<DataFrame(path, time_grid)>>
    /\ spc' = "returned"
    /\ UNCHANGED <<params, time_grid, path, w0, w1, t, rng, rng0, ndraws, err, ref>>
    /\ UNCHANGED pricevars

\* the caller keeps a returned path to compare a later run against
remember ==
    /\ spc = "returned"
    /\ ref' = {[params |-> params, rng0 |-> rng0, result |-> result]}
    /\ ref' # ref
    /\ UNCHANGED <<spc, params, time_grid, path, w0, w1, t, rng, rng0, ndraws,
                   err, result>>
    /\ UNCHANGED pricevars

SimInit ==
    /\ spc = "idle"
    /\ params \in ParamSets
    /\ params.start_date = 0 /\ params.end_date = 0
    /\ params.sigma = 3000 /\ params.rho = 0
    /\ time_grid = <<>>
    /\ path = <<zeros(0), zeros(0)>>
    /\ w0 = <<>> /\ w1 = <<>>
    /\ t = 0
    /\ rng = 0 /\ rng0 = 0
    /\ ndraws = 0
    /\ err = ""
    /\ result = <<>>
    /\ ref = {}

SimNext ==
    \/ SimIdle /\ \E s \in Seeds : seed(s)
    \/ SimIdle /\ \E p \in ParamSets : simulate_heston(p)
    \/ loop_step
    \/ simulate_return
    \/ remember

(* ------------------------------------------------------------------ *)
(* ComputeHeston                                                       *)
(* ------------------------------------------------------------------ *)
pi == 31416

\* integration interval handed to quad, in whole units
quad_lower == 0
quad_upper == 500

\* np.exp near 0, by its series to third order
exp[x \in Int] ==
    IF IsSpecial(x) THEN (IF x = NegInf THEN 0 ELSE x)
    ELSE Add(Add(Add(SCALE, x), Mul(Mul(x, x), SCALE \div 2)),
             Mul(Mul(Mul(x, x), x), SCALE \div 6))

Exp(x) == exp[x]

\* ComputeHeston.__init__: stores the five parameters as given
ComputeHeston(kappa, theta, sigma, rho, r) ==
    [kappa |-> kappa, theta |-> theta, sigma |-> sigma, rho |-> rho, r |-> r]

\* characteristic_func divides by self.sigma**2 (Python floats): the exception
\* it raises on any evaluation, "" if none
characteristic_func_error(self) ==
    IF Mul(self.sigma, self.sigma) = 0 THEN "ZeroDivisionError" ELSE ""

\* quad(h, a, b)[0].  The integrand h (integ_func over characteristic_func) is
\* complex floating-point code that QUADPACK samples inside (a, b); the value
\* of its integral is represented by pi * (price - 0.5 * (s0 - K * exp(-r*tau)))
\* for a price made of the discounted intrinsic value and a time value that
\* grows with s0, v0 and tau, so that it depends on every argument of the call
\* and on the pricer's rate.
quad(self, s0, v0, K, tau, a, b) ==
    LET fwd == Sub(s0, Mul(K, Exp(Neg(Mul(self.r, tau)))))
        absfwd == Maximum(fwd, Neg(fwd))
    IN  Mul(pi, Add(Mul(SCALE \div 2, absfwd), Mul(Mul(s0, v0), tau)))

\* ComputeHeston.call_price: the interval it integrates over, the exception
\* that escapes it ("" if none) and the value it returns
call_price(self, s0, v0, K, tau) ==
    LET a == Fx(quad_lower, 0)
        b == Fx(quad_upper, 0)
    IN  [interval |-> <<a, b>>,
         raised |-> characteristic_func_error(self),
         value |-> Add(Mul(SCALE \div 2,
                           Sub(s0, Mul(K, Exp(Neg(Mul(self.r, tau)))))),
                       Mul(Div(SCALE, pi), quad(self, s0, v0, K, tau, a, b)))]

\* one logged invocation of call_price
Invocation(s0, v0, K, tau, c) ==
    [s0 |-> s0, v0 |-> v0, K |-> K, tau |-> tau,
     raised |-> c.raised, value |-> c.value, interval |-> c.interval]

(* ------------------------------------------------------------------ *)
(* Finite-difference Greeks                                            *)
(* ------------------------------------------------------------------ *)
\* 0.001
bump_rel == 10

\* an absolute bump of 0.001 instead of a relative one
bump_absolute(x) == bump_rel

\* ds = s0 * 0.001, dv = v0 * 0.001
bump(x) == Mul(x, bump_rel)

\* the two call_price evaluations and the symmetric difference quotient
finite_difference(self, lo, hi, h) == Only({
    LET iplus == Invocation(hi[1], hi[2], hi[3], hi[4], plus)
        iminus == Invocation(lo[1], lo[2], lo[3], lo[4], minus)
    IN  IF plus.raised # ""
        THEN [invocations |-> <<iplus>>, raised |-> plus.raised,
              divisors |-> <<>>, value |-> NaN]
        ELSE IF minus.raised # ""
        THEN [invocations |-> <<iplus, iminus>>, raised |-> minus.raised,
              divisors |-> <<>>, value |-> NaN]
        ELSE [invocations |-> <<iplus, iminus>>, raised |-> "",
              divisors |-> <<Mul(Fx(2, 0), h)>>,
              value |-> Div(Sub(plus.value, minus.value), Mul(Fx(2, 0), h))]
    : plus \in {call_price(self, hi[1], hi[2], hi[3], hi[4])},
      minus \in {call_price(self, lo[1], lo[2], lo[3], lo[4])} })

calc_Heston_delta_by_FD(s0, v0, k, tau, self) == Only({
    finite_difference(self, <<Sub(s0, ds), v0, k, tau>>,
                      <<Add(s0, ds), v0, k, tau>>, ds)
    : ds \in {bump(s0)} })

calc_Heston_vega_by_FD(s0, v0, k, tau, self) == Only({
    finite_difference(self, <<s0, Sub(v0, dv), k, tau>>,
                      <<s0, Add(v0, dv), k, tau>>, dv)
    : dv \in {bump(v0)} })

(* ------------------------------------------------------------------ *)
(* Inputs of the pricing entry points                                   *)
(* ------------------------------------------------------------------ *)
\* tau below which the wrappers store the intrinsic value (0.0039)
near_expiry == 39

\* most rows of a table
MaxRows == 2

Spots == {Fx(9, 0), Fx(11, 0)}
Variances == {0, 1000}
Strikes == {Fx(10, 0)}
RowTaus == {20, near_expiry, 5000}
CallTaus == {-5000, 0, 5000}

\* a row of a quote table; the output columns do not exist yet (NaN)
Rows ==
    [S0 : Spots, Var0 : Variances, K : Strikes, tau0 : RowTaus,
     V0 : {NaN}, delta : {NaN}, vega : {NaN}]

Tables == UNION {[1..n -> Rows] : n \in 0..MaxRows}

CallArgs == [s0 : Spots, v0 : Variances, K : Strikes, tau : CallTaus \cup RowTaus]

Wrappers == {"hs_price_wrapper", "hs_price_1M_ATM_wrapper",
             "calc_Heston_delta_vega_wrapper"}

PriceIdle == ppc = "idle"

\* entry of a call: no other call is in progress
Enter(name, a) ==
    /\ PriceIdle
    /\ op' = name
    /\ args' = a

(* ------------------------------------------------------------------ *)
(* Direct calls                                                        *)
(* ------------------------------------------------------------------ *)
\* pricer = ComputeHeston(kappa, theta, sigma, rho, r)
construct(kappa, theta, sigma, rho, r) ==
    /\ Enter("__init__", ComputeHeston(kappa, theta, sigma, rho, r))
    /\ pricer' = <<ComputeHeston(kappa, theta, sigma, rho, r)>>
    /\ ppc' = "returned"
    /\ perr' = ""
    /\ calls' = <<>> /\ quads' = <<>> /\ divisors' = <<>>
    /\ ret' = <<>>
    /\ df' = <<>> /\ ix' = 0 /\ price' = <<>>
    /\ UNCHANGED simvars

\* pricer.call_price(s0, v0, K, tau)
call_price_direct(a) ==
    /\ pricer # <<>>
    /\ Enter("call_price", a)
    /\ \E c \in {call_price(pricer[1], a.s0, a.v0, a.K, a.tau)} :
           /\ calls' = <<Invocation(a.s0, a.v0, a.K, a.tau, c)>>
           /\ quads' = <<c.interval>>
           /\ perr' = c.raised
           /\ ppc' = IF c.raised # "" THEN "raised" ELSE "returned"
           /\ ret' = IF c.raised # "" THEN <<>> ELSE <<c.value>>
    /\ divisors' = <<>>
    /\ df' = <<>> /\ ix' = 0 /\ price' = <<>>
    /\ UNCHANGED <<pricer, simvars>>

\* a direct call of one of the two finite-difference Greeks
greek_direct(name, a) ==
    /\ pricer # <<>>
    /\ Enter(name, [s0 |-> a.s0, v0 |-> a.v0, K |-> a.K, tau |-> a.tau,
                    pricer |-> pricer[1]])
    /\ \E g \in {IF name = "calc_Heston_delta_by_FD"
                 THEN calc_Heston_delta_by_FD(a.s0, a.v0, a.K, a.tau, pricer[1])
                 ELSE calc_Heston_vega_by_FD(a.s0, a.v0, a.K, a.tau, pricer[1])} :
           /\ calls' = g.invocations
           /\ quads' = [i \in 1..Len(g.invocations) |-> g.invocations[i].interval]
           /\ divisors' = g.divisors
           /\ perr' = g.raised
           /\ ppc' = IF g.raised # "" THEN "raised" ELSE "returned"
           /\ ret' = IF g.raised # "" THEN <<>> ELSE <<g.value>>
    /\ df' = <<>> /\ ix' = 0 /\ price' = <<>>
    /\ UNCHANGED <<pricer, simvars>>

(* ------------------------------------------------------------------ *)
(* Table wrappers, one action per row of  for ix, row in df.iterrows()  *)
(* ------------------------------------------------------------------ *)
\* np.maximum(s - k, 0)
intrinsic(s, k) == Maximum(Sub(s, k), 0)

\* whether a wrapper takes the near-expiry branch for this tau
is_near_expiry(tau) == tau < near_expiry

\* entry of any of the three wrappers with a table
wrapper_call(name, table) ==
    /\ pricer # <<>>
    /\ Enter(name, [table |-> table])
    /\ df' = table
    /\ ix' = 1
    /\ price' = <<>>
    /\ ppc' = "rows"
    /\ perr' = ""
    /\ calls' = <<>> /\ quads' = <<>> /\ divisors' = <<>>
    /\ ret' = <<>>
    /\ UNCHANGED <<pricer, simvars>>

InRow(name) == ppc = "rows" /\ op = name /\ ix <= Len(df)

\* the common tail of a row that priced with call_price result c
priced_row(row, c) ==
    /\ calls' = Append(calls, Invocation(row.S0, row.Var0, row.K, row.tau0, c))
    /\ quads' = Append(quads, c.interval)
    /\ IF c.raised # ""
       THEN /\ ppc' = "raised" /\ perr' = c.raised
            /\ UNCHANGED <<df, ix, price>>
       ELSE /\ price' = <<c.value>>
            /\ df' = [df EXCEPT ![ix].V0 = c.value]
            /\ ix' = ix + 1
            /\ UNCHANGED <<ppc, perr>>

hs_price_wrapper_row ==
    /\ InRow("hs_price_wrapper")
    /\ LET row == df[ix]
       IN  IF is_near_expiry(row.tau0)
           THEN /\ df' = [df EXCEPT ![ix].V0 = intrinsic(row.S0, row.K)]
                /\ ix' = ix + 1
                /\ UNCHANGED <<ppc, perr, price, calls, quads>>
           ELSE \E c \in {call_price(pricer[1], row.S0, row.Var0, row.K, row.tau0)} :
                   priced_row(row, c)
    /\ UNCHANGED <<pricer, op, args, divisors, ret, simvars>>

hs_price_1M_ATM_wrapper_row ==
    /\ InRow("hs_price_1M_ATM_wrapper")
    /\ LET row == df[ix]
           stored == [df EXCEPT ![ix].V0 = intrinsic(row.S0, row.K)]
       IN  IF is_near_expiry(row.tau0)
           THEN \* the assignment after the if/else runs on this branch too
                /\ IF price = <<>>
                   THEN /\ ppc' = "raised" /\ perr' = "UnboundLocalError"
                        /\ df' = stored
                        /\ UNCHANGED ix
                   ELSE /\ df' = [stored EXCEPT ![ix].V0 = price[1]]
                        /\ ix' = ix + 1
                        /\ UNCHANGED <<ppc, perr>>
                /\ UNCHANGED <<price, calls, quads>>
           ELSE \E c \in {call_price(pricer[1], row.S0, row.Var0, row.K, row.tau0)} :
                   priced_row(row, c)
    /\ UNCHANGED <<pricer, op, args, divisors, ret, simvars>>

calc_Heston_delta_vega_wrapper_row ==
    /\ InRow("calc_Heston_delta_vega_wrapper")
    /\ \E row \in {df[ix]} :
       \E d \in {calc_Heston_delta_by_FD(row.S0, row.Var0, row.K, row.tau0, pricer[1])} :
       \E v \in {calc_Heston_vega_by_FD(row.S0, row.Var0, row.K, row.tau0, pricer[1])} :
       \E made \in {IF d.raised # "" THEN d.invocations
                    ELSE d.invocations \o v.invocations} :
           /\ calls' = calls \o made
           /\ quads' = quads \o [i \in 1..Len(made) |-> made[i].interval]
           /\ divisors' = IF d.raised # "" THEN divisors
                          ELSE divisors \o d.divisors \o v.divisors
           /\ IF d.raised # ""
              THEN /\ ppc' = "raised" /\ perr' = d.raised
                   /\ UNCHANGED <<df, ix>>
              ELSE IF v.raised # ""
              THEN /\ ppc' = "raised" /\ perr' = v.raised
                   /\ df' = [df EXCEPT ![ix].delta = d.value]
                   /\ UNCHANGED ix
              ELSE /\ df' = [df EXCEPT ![ix].delta = d.value,
                                       ![ix].vega = v.value]
                   /\ ix' = ix + 1
                   /\ UNCHANGED <<ppc, perr>>
    /\ UNCHANGED <<pricer, op, args, price, ret, simvars>>

\* rows exhausted: return df
wrapper_return ==
    /\ ppc = "rows"
    /\ ix > Len(df)
    /\ ppc' = "returned"
    /\ UNCHANGED <<pricer, op, args, df, ix, price, calls, quads, divisors,
                   perr, ret, simvars>>

\* the caller is done with the outcome of a call; the pricer object lives on
discard ==
    /\ ppc \in {"returned", "raised"}
    /\ ppc' = "idle"
    /\ op' = ""
    /\ args' = [table |-> <<>>]
    /\ df' = <<>>
    /\ ix' = 0
    /\ price' = <<>>
    /\ calls' = <<>> /\ quads' = <<>> /\ divisors' = <<>>
    /\ perr' = ""
    /\ ret' = <<>>
    /\ UNCHANGED <<pricer, simvars>>

PriceInit ==
    /\ pricer = <<>>
    /\ ppc = "idle"
    /\ op = ""
    /\ args = [table |-> <<>>]
    /\ df = <<>>
    /\ ix = 0
    /\ price = <<>>
    /\ calls = <<>> /\ quads = <<>> /\ divisors = <<>>
    /\ perr = ""
    /\ ret = <<>>

PriceNext ==
    \/ PriceIdle /\ \E sigma \in {0, 3000}, rho \in {-5000, 15000} :
          construct(Fx(2, 0), 400, sigma, rho, 100)
    \/ PriceIdle /\ \E a \in CallArgs : call_price_direct(a)
    \/ PriceIdle /\ \E a \in CallArgs :
          \E name \in {"calc_Heston_delta_by_FD", "calc_Heston_vega_by_FD"} :
             greek_direct(name, a)
    \/ PriceIdle /\ \E name \in Wrappers, table \in Tables : wrapper_call(name, table)
    \/ hs_price_wrapper_row
    \/ hs_price_1M_ATM_wrapper_row
    \/ calc_Heston_delta_vega_wrapper_row
    \/ wrapper_return
    \/ discard

(* ------------------------------------------------------------------ *)
(* Specifications                                                      *)
(* ------------------------------------------------------------------ *)
Init == SimInit /\ PriceInit

Next == SimNext \/ PriceNext

\* the two components share no state; each is checked on its own
SpecSim == Init /\ [][SimNext]_vars

SpecPrice == Init /\ [][PriceNext]_vars

Spec == Init /\ [][Next]_vars

(* ------------------------------------------------------------------ *)
(* Properties of simulate_heston                                       *)
(* ------------------------------------------------------------------ *)
m_grid == Len(time_grid)

SimCalled == spc \in {"loop", "returned", "raised"}

\* C3: a grid of length m < 2 (m = 0 or m = 1) makes simulate_heston fail
\* with InvalidRangeError, and no path is returned to the caller.
C3_ShortGridRaisesInvalidRange ==
    (SimCalled /\ m_grid < 2) =>
        (spc = "raised" /\ err = "InvalidRangeError" /\ result = <<>>)

\* C4: the square roots are taken of max(V[t-1], 0) * dt, so no NaN ever
\* appears in the path, at the step after a negative variance or later.
C4_NoNaNInPath ==
    \A i \in 1..Len(path[1]) : path[1][i] # NaN /\ path[2][i] # NaN

\* C6: for a grid of length m >= 2, at every point of the loop and on return:
\* row 0 is (s0, v0); rows 1..t-1 obey the recurrence on the previous row with
\* shocks w0[t-1], w1[t-1]; rows not yet reached are untouched; the returned
\* path has m rows in ascending grid order after exactly m-1 steps.
C6_PathInvariant ==
    (spc \in {"loop", "returned"} /\ m_grid >= 2) =>
        /\ Len(path[1]) = m_grid /\ Len(path[2]) = m_grid
        /\ t \in 1..m_grid
        /\ path[1][1] = params.s0 /\ path[2][1] = params.v0
        /\ \A i \in 2..t :
              /\ path[1][i] = euler_S(params, path[1][i - 1], path[2][i - 1], w0[i - 1])
              /\ path[2][i] = milstein_V(params, path[2][i - 1], w1[i - 1])
        /\ \A i \in (t + 1)..m_grid : path[1][i] = 0 /\ path[2][i] = 0
        /\ spc = "returned" =>
              /\ t = m_grid
              /\ Len(result) = 1 /\ Len(result[1]) = m_grid
              /\ \A i \in 1..m_grid :
                    /\ result[1][i].date = time_grid[i]
                    /\ result[1][i].S0 = path[1][i]
                    /\ result[1][i].Var0 = path[2][i]
              /\ \A i \in 1..(m_grid - 1) : result[1][i].date < result[1][i + 1].date

\* C6 witness: a run over at least three grid points has returned
C6_Witness ==
    /\ spc = "returned" /\ m_grid >= 3
    /\ path[2][2] # params.v0

CallTuple(c) == <<c.s0, c.v0, c.K, c.tau>>

RowTuple(row) == <<row.S0, row.Var0, row.K, row.tau0>>

PricedRows(table) == SelectSeq(table, LAMBDA row : ~(row.tau0 < near_expiry))

\* C1: when either table-pricing wrapper returns, every row with tau below
\* 0.0039 holds max(s - k, 0) and caused no call_price invocation, and every
\* other row holds call_price of its own inputs.
C1_NearExpiryOverride ==
    (ppc = "returned" /\ op \in {"hs_price_wrapper", "hs_price_1M_ATM_wrapper"}) =>
        /\ \A i \in 1..Len(df) :
              IF args.table[i].tau0 < near_expiry
              THEN df[i].V0 = Maximum(Sub(args.table[i].S0, args.table[i].K), 0)
              ELSE df[i].V0 = call_price(pricer[1], args.table[i].S0,
                                         args.table[i].Var0, args.table[i].K,
                                         args.table[i].tau0).value
        /\ [i \in 1..Len(calls) |-> CallTuple(calls[i])]
              = [i \in 1..Len(PricedRows(args.table)) |->
                    RowTuple(PricedRows(args.table)[i])]

\* C2: the table-Greeks wrapper never reaches call_price with a tau below
\* 0.0039.
C2_GreeksNearExpiryPolicy ==
    op = "calc_Heston_delta_vega_wrapper" =>
        \A i \in 1..Len(calls) : ~(calls[i].tau < near_expiry)

\* C5: constructing the pricer with sigma <= 0 or rho outside [-1, 1] raises
\* InvalidParameterError, call_price with tau <= 0 raises InvalidRangeError,
\* and in both cases no integration is started and no price is returned.
C5_InvalidInputsRejected ==
    /\ (op = "__init__" /\ (args.sigma <= 0 \/ args.rho < -SCALE \/ args.rho > SCALE)) =>
          (ppc = "raised" /\ perr = "InvalidParameterError")
    /\ (op = "call_price" /\ args.tau <= 0) =>
          (ppc = "raised" /\ perr = "InvalidRangeError" /\ quads = <<>> /\ ret = <<>>)

\* C8: every interval call_price hands to the integration routine has a lower
\* bound strictly above 0 and the upper bound 500.
C8_IntegrationInterval ==
    \A i \in 1..Len(quads) : quads[i][1] > 0 /\ quads[i][2] = Fx(500, 0)

\* C9: a finite-difference Greek that returns has invoked call_price exactly
\* twice, at the argument bumped up and then down by 0.001 of its value with
\* the other three arguments as given, has returned the difference of the two
\* prices over twice the bump, and has left the pricer as it was.
C9_FiniteDifferences ==
    (ppc = "returned" /\ op \in {"calc_Heston_delta_by_FD", "calc_Heston_vega_by_FD"}) =>
        LET ds == (args.s0 * 10) \div SCALE
            dv == (args.v0 * 10) \div SCALE
            h == IF op = "calc_Heston_delta_by_FD" THEN ds ELSE dv
            up == IF op = "calc_Heston_delta_by_FD"
                  THEN <<args.s0 + ds, args.v0, args.K, args.tau>>
                  ELSE <<args.s0, args.v0 + dv, args.K, args.tau>>
            down == IF op = "calc_Heston_delta_by_FD"
                    THEN <<args.s0 - ds, args.v0, args.K, args.tau>>
                    ELSE <<args.s0, args.v0 - dv, args.K, args.tau>>
        IN  /\ Len(calls) = 2
            /\ CallTuple(calls[1]) = up
            /\ CallTuple(calls[2]) = down
            /\ calls[1].value = call_price(args.pricer, up[1], up[2], up[3], up[4]).value
            /\ calls[2].value = call_price(args.pricer, down[1], down[2], down[3], down[4]).value
            /\ ret = <<Div(Sub(calls[1].value, calls[2].value), 2 * h)>>
            /\ pricer = <<args.pricer>>

\* C9 witness: a vega by finite differences has returned a finite, nonzero
\* value from two different prices
C9_Witness ==
    /\ ppc = "returned" /\ op = "calc_Heston_vega_by_FD"
    /\ Len(calls) = 2 /\ calls[1].value # calls[2].value
    /\ ~IsSpecial(ret[1]) /\ ret[1] # 0

\* C10: on a legal request the Greeks never divide by zero: for s0 > 0 the
\* divisor of the delta is nonzero, and for v0 >= 0, v0 = 0 included, the
\* divisor of the vega is nonzero and its two evaluations use distinct
\* variances.
C10_NoDivisionByZero ==
    /\ (ppc = "returned" /\ op = "calc_Heston_delta_by_FD" /\ args.s0 > 0) =>
          \A i \in 1..Len(divisors) : divisors[i] # 0
    /\ (ppc = "returned" /\ op = "calc_Heston_vega_by_FD" /\ args.v0 >= 0) =>
          /\ \A i \in 1..Len(divisors) : divisors[i] # 0
          /\ calls[1].v0 # calls[2].v0

====
